---- MODULE Spec2Model ----
(***************************************************************************)
(* Model of input.py: the keyboard-to-mailbox bridge of tetris-sql.        *)
(*                                                                         *)
(* A Python string is a sequence of one-character strings, so that "up"    *)
(* is <<"u","p">> and key[0] is key[1] here.  The bytes that are not       *)
(* printable are named: "ESC" is \x1b, "00" is \x00 and "E0" is \xe0.      *)
(***************************************************************************)
EXTENDS Integers, Sequences, FiniteSets, TLC

\* Bounds of the model: keypresses the operator types, and clock ticks.
MaxKeys == 4
MaxClock == 1

\* Bound of the adapter specification: keypresses on the full keyboard.
MaxAdapterKeys == 2

VARIABLES
    platform,       \* sys.platform: "win32" or "posix"
    pc,             \* position of the script
    exitCode,       \* process exit status, -1 while the process runs
    termMode,       \* line discipline of the terminal: "cooked" or "raw"
    orig_settings,  \* get_key's saved termios attributes
    stdin,          \* bytes typed and not yet read, each with its keypress
    nTyped,         \* number of keypresses typed so far
    typed,          \* the keys the operator has pressed, in order
    key,            \* get_key's local `key`, then the loop's `key`
    consumed,       \* keypresses the current get_key call has read from
    server,         \* the store as the connection sees it
    table,          \* the Input table: "absent", "empty" or "row"
    row,            \* the committed (cmd, ts) of the Input row
    tx,             \* transaction status of the session
    clock,          \* the store's wall clock
    readAt,         \* the clock when get_key last returned, 0 inside get_key
    events,         \* keys returned by get_key so far
    writes,         \* cmd of the UPDATE statements that executed, in order
    warnings        \* missing-table warnings printed so far

vars == <<platform, pc, exitCode, termMode, orig_settings, stdin, nTyped, typed,
          key, consumed, server, table, row, tx, clock, readAt, events, writes,
          warnings>>

----------------------------------------------------------------------------
\* Strings of the program.
up == <<"u", "p">>
down == <<"d", "o", "w", "n">>
left == <<"l", "e", "f", "t">>
right == <<"r", "i", "g", "h", "t">>
space == <<"s", "p", "a", "c", "e">>

\* dict.get(k, default)
DictGet(d, k, default) == IF k \in DOMAIN d THEN d[k] ELSE default

\* str.lower() on the letters that occur
LowerOf ==
    [A |-> "a", B |-> "b", C |-> "c", D |-> "d", G |-> "g", H |-> "h",
     K |-> "k", M |-> "m", O |-> "o", P |-> "p", Q |-> "q", S |-> "s",
     W |-> "w", X |-> "x"]

Lower(s) == [i \in DOMAIN s |-> DictGet(LowerOf, s[i], s[i])]

\* bytes.decode(errors="ignore"): bytes that are no text are left out
IsText(b) == b \notin {"00", "E0"}

Decode(bs) == SelectSeq(bs, IsText)

\* the extended-key table of the win32 get_key
ExtendedKeys ==
    (<<"H">> :> up) @@ (<<"P">> :> down) @@ (<<"K">> :> left) @@ (<<"M">> :> right)

\* Variant of EscapeKeys: the final bytes of right and left are exchanged.
EscapeKeysSwapped ==
    (<<"ESC", "[", "A">> :> up) @@ (<<"ESC", "[", "B">> :> down) @@
    (<<"ESC", "[", "C">> :> left) @@ (<<"ESC", "[", "D">> :> right)

\* the escape-sequence table of the termios get_key
EscapeKeys ==
    (<<"ESC", "[", "A">> :> up) @@ (<<"ESC", "[", "B">> :> down) @@
    (<<"ESC", "[", "C">> :> right) @@ (<<"ESC", "[", "D">> :> left)

keyTranslator ==
    (<<"w">> :> up) @@ (<<"a">> :> left) @@ (<<"s">> :> down) @@
    (<<"d">> :> right) @@ (<<" ">> :> space)

\* Variant of Normalize: lower() is left out.
TranslateOnly(k) == DictGet(keyTranslator, k, k)

\* Variant of Normalize: the keyTranslator lookup is left out.
LowerOnly(k) == Lower(k)

\* key = get_key().lower(); key = keyTranslator.get(key, key)
Normalize(k) == DictGet(keyTranslator, Lower(k), Lower(k))

\* Variants of IsCommand: "q" is in the tuple; every key but "q" is accepted.
IsCommandOrQuit(k) == k \in {up, down, left, right, space, <<"p">>, <<"q">>}

IsNotQuit(k) == k # <<>> /\ k # <<"q">>

\* key in ("up", "down", "left", "right", "space", "p")
IsCommand(k) == k \in {up, down, left, right, space, <<"p">>}

\* Variant of IsQuit: the test is made against the key before lower().
IsQuitUpper(k) == k = <<"Q">>

\* key == "q"
IsQuit(k) == k = <<"q">>

\* Variant of CmdParam: the last character, key[-1].
LastChar(k) == k[Len(k)]

\* the parameter of the UPDATE: key[0]
CmdParam(k) == k[1]

\* Variant of autocommit: the connection is left in its default mode.
manualcommit == FALSE

\* conn.autocommit = True
autocommit == TRUE

----------------------------------------------------------------------------
\* The keyboard: the bytes each keypress delivers to the process.
Keyboard == {"Up", "S", "q", "x", "Esc"}

KeyBytes(plat, k) ==
    CASE k = "Up" -> IF plat = "win32" THEN <<"E0", "H">> ELSE <<"ESC", "[", "A">>
      [] k = "Down" -> IF plat = "win32" THEN <<"E0", "P">> ELSE <<"ESC", "[", "B">>
      [] k = "Right" -> IF plat = "win32" THEN <<"E0", "M">> ELSE <<"ESC", "[", "C">>
      [] k = "Left" -> IF plat = "win32" THEN <<"E0", "K">> ELSE <<"ESC", "[", "D">>
      [] k = "KpLeft" -> IF plat = "win32" THEN <<"00", "K">> ELSE <<"ESC", "[", "D">>
      [] k = "Home" -> IF plat = "win32" THEN <<"E0", "G">> ELSE <<"ESC", "[", "H">>
      [] k = "F1" -> IF plat = "win32" THEN <<"00", ";">> ELSE <<"ESC", "O", "P">>
      [] k = "Space" -> <<" ">>
      [] k = "Esc" -> <<"ESC">>
      [] OTHER -> <<k>>

\* The keys of the adapter specification: every arrow, the left arrow of the
\* keypad (prefix \x00 under win32), two keys that send an unmapped sequence,
\* and the letters and the space of the loop's tables.
FullKeyboard ==
    {"Up", "Down", "Left", "Right", "KpLeft", "Home", "F1", "Space",
     "w", "a", "s", "d", "W", "A", "S", "D", "p", "P", "q", "Q", "x"}

\* The row the schema's owner puts in the Input table.
InitRow == [cmd |-> "", ts |-> 0]

Init ==
    /\ platform \in {"posix", "win32"}
    /\ pc = "connect"
    /\ exitCode = -1
    /\ termMode = "cooked"
    /\ orig_settings = "cooked"
    /\ stdin = <<>>
    /\ nTyped = 0
    /\ typed = <<>>
    /\ key = <<>>
    /\ consumed = {}
    /\ server \in {"ok", "down"}
    /\ table \in {"absent", "empty", "row"}
    /\ row = InitRow
    /\ tx = "idle"
    /\ clock = 0
    /\ readAt = 0
    /\ events = <<>>
    /\ writes = <<>>
    /\ warnings = 0

----------------------------------------------------------------------------
\* The process has ended: break and conn.close(), exit(1), or a traceback.
Ended == pc \in {"Terminated", "Exited", "Crashed"}

\* Variant of Connect: the except clause ends the process with exit().
ConnectExitZero ==
    /\ pc = "connect"
    /\ IF server = "ok"
         THEN pc' = "get_key" /\ exitCode' = exitCode
         ELSE pc' = "Exited" /\ exitCode' = 0
    /\ UNCHANGED <<platform, termMode, orig_settings, stdin, nTyped, typed,
                   readAt, key, consumed, server, table, row, tx, clock,
                   events, writes, warnings>>

\* try: conn = psycopg2.connect(...) except Exception: exit(1)
Connect ==
    /\ pc = "connect"
    /\ IF server = "ok"
         THEN pc' = "get_key" /\ exitCode' = exitCode
         ELSE pc' = "Exited" /\ exitCode' = 1
    /\ UNCHANGED <<platform, termMode, orig_settings, stdin, nTyped, typed, readAt, key,
                   consumed, server, table, row, tx, clock, events, writes,
                   warnings>>

\* get_key up to its first blocking read: on termios the settings are saved
\* and the terminal is put in raw mode; msvcrt.getch() changes no mode.
GetKeyEnter ==
    /\ pc = "get_key"
    /\ pc' = "read1"
    /\ consumed' = {}
    /\ readAt' = 0
    /\ IF platform = "posix"
         THEN orig_settings' = termMode /\ termMode' = "raw"
         ELSE UNCHANGED <<orig_settings, termMode>>
    /\ UNCHANGED <<platform, exitCode, stdin, nTyped, typed, key, server, table,
                   row, tx, clock, events, writes, warnings>>

\* termios.tcsetattr(fd, termios.TCSADRAIN, orig_settings)
Restored(plat, saved, mode) == IF plat = "posix" THEN saved ELSE mode

\* return key: the loop has the next key
Return(k) ==
    /\ key' = k
    /\ events' = Append(events, k)
    /\ pc' = "dispatch"
    /\ readAt' = clock
    /\ termMode' = Restored(platform, orig_settings, termMode)

\* the number of further bytes get_key reads after the first one
Lookahead(plat, first) ==
    IF plat = "posix"
      THEN IF first = "ESC" THEN 2 ELSE 0
      ELSE IF first \in {"00", "E0"} THEN 1 ELSE 0

\* sys.stdin.read(1) / msvcrt.getch() returns the first byte
Read1 ==
    /\ pc = "read1"
    /\ stdin # <<>>
    /\ LET b == Head(stdin) IN
         /\ stdin' = Tail(stdin)
         /\ consumed' = consumed \cup {b.k}
         /\ IF Lookahead(platform, b.b) > 0
              THEN /\ key' = <<b.b>>
                   /\ pc' = "read2"
                   /\ UNCHANGED <<events, termMode, readAt>>
              ELSE Return(IF platform = "posix" THEN <<b.b>> ELSE Decode(<<b.b>>))
    /\ UNCHANGED <<platform, exitCode, orig_settings, nTyped, typed, server, table,
                   row, tx, clock, warnings, writes>>

\* the bytes of a stretch of stdin
Bytes(s) == [i \in DOMAIN s |-> s[i].b]

\* key += sys.stdin.read(2) and the table lookup / the second msvcrt.getch()
Read2 ==
    /\ pc = "read2"
    /\ LET n == Lookahead(platform, key[1])
           got == SubSeq(stdin, 1, n)
       IN  /\ Len(stdin) >= n
           /\ stdin' = SubSeq(stdin, n + 1, Len(stdin))
           /\ consumed' = consumed \cup {got[i].k : i \in 1..n}
           /\ IF platform = "posix"
                THEN Return(DictGet(EscapeKeys, key \o Bytes(got), key \o Bytes(got)))
                ELSE Return(Decode(DictGet(ExtendedKeys, Bytes(got), <<>>)))
    /\ UNCHANGED <<platform, exitCode, orig_settings, nTyped, typed, server, table,
                   row, tx, clock, warnings, writes>>

\* Variant of WriteOutcome: a statement that updates no row is an error.
WriteOutcomeRowRequired(srv, tbl, t) ==
    IF srv = "down" THEN "OperationalError"
    ELSE IF t = "failed" THEN "InFailedSqlTransaction"
    ELSE IF tbl = "absent" THEN "UndefinedTable"
    ELSE IF srv = "denied" THEN "InsufficientPrivilege"
    ELSE IF tbl = "empty" THEN "NoData"
    ELSE "ok"

\* cursor.execute("UPDATE Input SET cmd = %s, ts = clock_timestamp()"):
\* what the statement raises, if anything
WriteOutcome(srv, tbl, t) ==
    IF srv = "down" THEN "OperationalError"
    ELSE IF t = "failed" THEN "InFailedSqlTransaction"
    ELSE IF tbl = "absent" THEN "UndefinedTable"
    ELSE IF srv = "denied" THEN "InsufficientPrivilege"
    ELSE "ok"

\* Variant of UpdatedRow: ts is the time the key was read.
UpdatedRowAtRead(r, c, now) == [r EXCEPT !.cmd = c, !.ts = readAt]

\* Variant of UpdatedRow: the statement sets cmd and leaves ts.
UpdatedCmdOnly(r, c, now) == [r EXCEPT !.cmd = c]

\* SET cmd = %s, ts = clock_timestamp()
UpdatedRow(r, c, now) == [r EXCEPT !.cmd = c, !.ts = now]

\* Variants of AfterWrite: the write is tried again after a missing table;
\* every other exception is caught and the loop goes on.
AfterWriteRetry(outcome) ==
    CASE outcome = "ok" -> "get_key"
      [] outcome = "UndefinedTable" -> "dispatch"
      [] outcome = "OperationalError" -> "Exited"
      [] OTHER -> "Crashed"

AfterWriteCatchAll(outcome) ==
    CASE outcome = "ok" -> "get_key"
      [] outcome = "UndefinedTable" -> "get_key"
      [] outcome = "OperationalError" -> "Exited"
      [] OTHER -> "get_key"

\* Variant of AfterWrite: the OperationalError handler prints and goes on.
AfterWriteNoExit(outcome) ==
    CASE outcome = "ok" -> "get_key"
      [] outcome = "UndefinedTable" -> "get_key"
      [] outcome = "OperationalError" -> "get_key"
      [] OTHER -> "Crashed"

\* the try/except around the write: where the script is after it
AfterWrite(outcome) ==
    CASE outcome = "ok" -> "get_key"
      [] outcome = "UndefinedTable" -> "get_key"
      [] outcome = "OperationalError" -> "Exited"
      [] OTHER -> "Crashed"

ExecuteUpdate(c) ==
    LET outcome == WriteOutcome(server, table, tx) IN
    /\ pc' = AfterWrite(outcome)
    /\ exitCode' = IF AfterWrite(outcome) = "get_key" THEN exitCode ELSE 1
    /\ warnings' = IF outcome = "UndefinedTable" THEN warnings + 1 ELSE warnings
    /\ writes' = IF outcome = "ok"
                   THEN Append(writes, c)
                   ELSE writes
    /\ row' = IF outcome = "ok" /\ table = "row" /\ autocommit
                THEN UpdatedRow(row, c, clock)
                ELSE row
    /\ tx' = IF autocommit THEN tx
             ELSE IF outcome = "ok" THEN "open"
             ELSE IF outcome = "OperationalError" THEN tx
             ELSE "failed"

\* one turn of the while loop after get_key has returned
Dispatch ==
    /\ pc = "dispatch"
    /\ LET k == Normalize(key) IN
         IF IsCommand(k)
           THEN ExecuteUpdate(CmdParam(k))
           ELSE /\ IF IsQuit(k)
                     THEN pc' = "Terminated" /\ exitCode' = 0
                     ELSE pc' = "get_key" /\ exitCode' = exitCode
                /\ UNCHANGED <<warnings, writes, row, tx>>
    /\ UNCHANGED <<platform, termMode, orig_settings, stdin, nTyped, typed, readAt, key,
                   consumed, server, table, clock, events>>

\* A blocking call raises (a signal, an I/O error on the terminal): nothing
\* in the script catches it.
Interrupt ==
    /\ pc \in {"read1", "read2", "dispatch"}
    /\ pc' = "Crashed"
    /\ exitCode' = 1
    /\ UNCHANGED <<platform, termMode, orig_settings, stdin, nTyped, typed, readAt, key,
                   consumed, server, table, row, tx, clock, events, writes,
                   warnings>>

----------------------------------------------------------------------------
\* The environment, while the process runs.

\* the operator presses one of the keys of a keyboard, up to a number of keys
Type(keyboard, max) ==
    /\ ~Ended
    /\ nTyped < max
    /\ \E k \in keyboard :
         LET bs == KeyBytes(platform, k) IN
         /\ stdin' = stdin \o [i \in DOMAIN bs |-> [b |-> bs[i], k |-> nTyped + 1]]
         /\ typed' = Append(typed, k)
    /\ nTyped' = nTyped + 1
    /\ UNCHANGED <<platform, pc, exitCode, termMode, orig_settings, key,
                   consumed, server, table, row, tx, clock, readAt, events,
                   writes, warnings>>

TypeKey == Type(Keyboard, MaxKeys)

Tick ==
    /\ ~Ended
    /\ clock < MaxClock
    /\ clock' = clock + 1
    /\ UNCHANGED <<platform, pc, exitCode, termMode, orig_settings, stdin,
                   nTyped, typed, readAt, key, consumed, server, table, row, tx, events,
                   writes, warnings>>

\* the connection breaks, or the role loses its privilege on the table
StoreFault ==
    /\ ~Ended
    /\ pc # "connect"
    /\ server = "ok"
    /\ server' \in {"down", "denied"}
    /\ UNCHANGED <<platform, pc, exitCode, termMode, orig_settings, stdin,
                   nTyped, typed, readAt, key, consumed, table, row, tx, clock, events,
                   writes, warnings>>

\* the schema's owner creates the Input table, with or without its row
TableAppears ==
    /\ ~Ended
    /\ table = "absent"
    /\ table' \in {"empty", "row"}
    /\ row' = InitRow
    /\ UNCHANGED <<platform, pc, exitCode, termMode, orig_settings, stdin,
                   nTyped, typed, readAt, key, consumed, server, tx, clock, events, writes,
                   warnings>>

Next ==
    \/ Connect
    \/ GetKeyEnter
    \/ Read1
    \/ Read2
    \/ Dispatch
    \/ Interrupt
    \/ TypeKey
    \/ Tick
    \/ StoreFault
    \/ TableAppears

Spec == Init /\ [][Next]_vars

----------------------------------------------------------------------------
\* The adapter specification: the script is connected, the table has its
\* row and nothing fails; the operator types on the full keyboard.
InitAdapter ==
    /\ platform \in {"posix", "win32"}
    /\ pc = "get_key"
    /\ exitCode = -1
    /\ termMode = "cooked"
    /\ orig_settings = "cooked"
    /\ stdin = <<>>
    /\ nTyped = 0
    /\ typed = <<>>
    /\ key = <<>>
    /\ consumed = {}
    /\ server = "ok"
    /\ table = "row"
    /\ row = InitRow
    /\ tx = "idle"
    /\ clock = 0
    /\ readAt = 0
    /\ events = <<>>
    /\ writes = <<>>
    /\ warnings = 0

TypeAnyKey == Type(FullKeyboard, MaxAdapterKeys)

NextAdapter ==
    \/ GetKeyEnter
    \/ Read1
    \/ Read2
    \/ Dispatch
    \/ TypeAnyKey

SpecAdapter == InitAdapter /\ [][NextAdapter]_vars

----------------------------------------------------------------------------
\* The vocabulary of the specification, stated apart from the program's
\* tables: the logical KeyEvent of a key that get_key returns, and the code
\* that stands for a command in the mailbox.
KeyEvent(k) ==
    CASE k \in {up, <<"w">>, <<"W">>} -> "up"
      [] k \in {down, <<"s">>, <<"S">>} -> "down"
      [] k \in {left, <<"a">>, <<"A">>} -> "left"
      [] k \in {right, <<"d">>, <<"D">>} -> "right"
      [] k \in {space, <<" ">>} -> "space"
      [] k \in {<<"p">>, <<"P">>} -> "pause"
      [] k \in {<<"q">>, <<"Q">>} -> "quit"
      [] OTHER -> "other"

EventCode(e) ==
    CASE e = "up" -> "u"
      [] e = "down" -> "d"
      [] e = "left" -> "l"
      [] e = "right" -> "r"
      [] e = "space" -> "s"
      [] e = "pause" -> "p"

IsCommandEvent(k) == KeyEvent(k) \notin {"quit", "other"}

\* the codes of the commands of a sequence of keys, up to its first quit
RECURSIVE Published(_)
Published(es) ==
    IF es = <<>> THEN <<>>
    ELSE LET e == KeyEvent(Head(es)) IN
         IF e = "quit" THEN <<>>
         ELSE IF e = "other" THEN Published(Tail(es))
         ELSE <<EventCode(e)>> \o Published(Tail(es))

\* no write has failed and nothing has interrupted the process
Healthy == warnings = 0 /\ pc \notin {"Exited", "Crashed"}

\* C1: with the table present and the connection healthy, once the loop has
\* handled the keys it was given, the writes are exactly the codes of the
\* commands among them up to the first quit, in order.
C1_WritesArePublishedCommands ==
    (Healthy /\ pc # "dispatch") => writes = Published(events)

\* C1 witness: [up, x, S, q] has written "u" then "d" and the loop has ended.
C1_Witness ==
    /\ pc = "Terminated"
    /\ events = <<up, <<"x">>, <<"S">>, <<"q">>>>
    /\ writes = <<"u", "d">>
    /\ table = "row" /\ row.cmd = "d"

\* C2 (as claimed): whenever the process is outside get_key, and so also
\* after it has ended in any way, the terminal is in the mode it had before
\* the loop started.
C2_TerminalRestored ==
    pc \notin {"read1", "read2"} => termMode = "cooked"

\* C3: while the row exists, a step that executes a write sets both fields
\* of the row from that write, and no other step changes the row: the row
\* is always the most recent successful write, whole.
C3_RowIsLatestWrite ==
    [][(table = "row" /\ table' = "row") =>
         IF writes' # writes
           THEN row' = [cmd |-> writes'[Len(writes')], ts |-> clock]
           ELSE row' = row]_vars

\* C3 witness: a second write has replaced cmd and ts together.
C3_Witness ==
    /\ table = "row"
    /\ Len(writes) = 2 /\ writes[1] # writes[2]
    /\ row = [cmd |-> writes[2], ts |-> clock]
    /\ clock > 0

\* the code of the most recent command among the keys, "" if there is none
RECURSIVE LastCode(_)
LastCode(es) ==
    IF es = <<>> THEN ""
    ELSE IF IsCommandEvent(es[Len(es)]) THEN EventCode(KeyEvent(es[Len(es)]))
    ELSE LastCode(SubSeq(es, 1, Len(es) - 1))

\* the loop is at, or blocked in, the next key read
AtKeyRead == pc \in {"get_key", "read1"}

\* C4 (as claimed): whenever the loop is at the next key read and the row
\* exists, the row's cmd is the code of the most recent command key.
C4_LatestCommandVisible ==
    (AtKeyRead /\ table = "row" /\ LastCode(events) # "") =>
        row.cmd = LastCode(events)

\* C4 (amended): a command key whose write succeeds on the row has its code in
\* the row's cmd when the loop is back at the key read, and cmd then stays
\* until the loop handles another key.
C4_WrittenCommandVisible ==
    [][/\ (Dispatch /\ IsCommandEvent(key) /\ table = "row" /\ pc' = "get_key")
            => row'.cmd = EventCode(KeyEvent(key))
       /\ (table = "row" /\ ~Dispatch) => row'.cmd = row.cmd]_vars

\* C4 witness: the second of two commands is the visible one at the key read.
C4_Witness ==
    /\ pc = "read1"
    /\ table = "row"
    /\ events = <<up, <<"S">>>>
    /\ row.cmd = "d"

\* C5: a command key handled while the table is missing and the connection
\* is up prints one warning, changes nothing in the store and leaves the
\* loop at the next key read.
C5_MissingTableWarns ==
    [][(Dispatch /\ IsCommandEvent(key) /\ table = "absent" /\ server # "down")
         => /\ warnings' = warnings + 1
            /\ pc' = "get_key"
            /\ exitCode' = exitCode
            /\ UNCHANGED <<table, row, writes>>]_vars

\* C5 witness: three writes in a row have failed on the missing table and
\* the loop is still reading keys.
C5_Witness ==
    /\ warnings = 3
    /\ table = "absent"
    /\ pc = "read1"
    /\ writes = <<>>

\* a step of the script itself
ProcessStep == Connect \/ GetKeyEnter \/ Read1 \/ Read2 \/ Dispatch

\* C6: a command key handled while the connection is lost ends the process
\* at once with status 1 and without a write, and the ended process takes no
\* step: no key read, no write, no reconnection.
C6_ConnectionLossIsFatal ==
    [][/\ (Dispatch /\ IsCommandEvent(key) /\ server = "down")
            => /\ pc' = "Exited"
               /\ exitCode' = 1
               /\ UNCHANGED <<writes, row, server, stdin, events, warnings>>
       /\ pc = "Exited" => ~ProcessStep]_vars

\* C6 witness: the process has exited on a failed write after an earlier
\* write went through, with typed keys left unread.
C6_Witness ==
    /\ pc = "Exited"
    /\ server = "down"
    /\ Len(events) = 2 /\ IsCommandEvent(events[2])
    /\ Len(writes) = 1
    /\ stdin # <<>>

\* a write was attempted in the step: it executed, or it warned
WriteAttempted == writes' # writes \/ warnings' # warnings

\* C7 (as claimed): handling quit goes to Terminated; handling any other
\* key returns to Running, with a write for a command and without one for an
\* unrecognized key; nothing else reaches Terminated.
C7_StateMachine ==
    [][/\ Dispatch =>
            CASE KeyEvent(key) = "quit" -> pc' = "Terminated"
              [] KeyEvent(key) = "other" -> pc' = "get_key" /\ ~WriteAttempted
              [] OTHER -> pc' = "get_key" /\ WriteAttempted
       /\ (pc' = "Terminated" /\ pc # "Terminated")
            => (Dispatch /\ KeyEvent(key) = "quit")]_vars

\* C7 (amended): as claimed, but a command whose write raises anything
\* other than a missing table ends the process with status 1 instead of
\* returning to Running.
C7_StateMachineWithFatalWrites ==
    [][/\ Dispatch =>
            CASE KeyEvent(key) = "quit" -> pc' = "Terminated" /\ exitCode' = 0
              [] KeyEvent(key) = "other" -> pc' = "get_key" /\ ~WriteAttempted
              [] OTHER ->
                   IF WriteOutcome(server, table, tx) \in {"ok", "UndefinedTable"}
                     THEN pc' = "get_key" /\ WriteAttempted
                     ELSE pc' \in {"Exited", "Crashed"} /\ exitCode' = 1
                          /\ ~WriteAttempted
       /\ (pc' = "Terminated" /\ pc # "Terminated")
            => (Dispatch /\ KeyEvent(key) = "quit")]_vars

\* C7 witness: a command, an unrecognized key and quit have been handled in
\* turn and the loop has terminated.
C7_Witness ==
    /\ pc = "Terminated"
    /\ exitCode = 0
    /\ events = <<<<"S">>, <<"x">>, <<"q">>>>
    /\ writes = <<"d">>

\* C8: handling quit ends the loop and leaves the store as it was, and no
\* step ever writes "q".
C8_QuitIsNotWritten ==
    [][/\ (Dispatch /\ KeyEvent(key) = "quit")
            => /\ pc' = "Terminated"
               /\ UNCHANGED <<row, writes, warnings, table>>
       /\ row'.cmd # "q"
       /\ writes' # writes => writes'[Len(writes')] # "q"]_vars

\* C8 witness: the loop has quit after a command and the row still holds it.
C8_Witness ==
    /\ pc = "Terminated"
    /\ events = <<up, <<"q">>>>
    /\ table = "row"
    /\ row.cmd = "u"
    /\ writes = <<"u">>

\* keys that are all unrecognized, but for a quit at the end
OnlyNoise(es) ==
    \A i \in DOMAIN es :
        \/ KeyEvent(es[i]) = "other"
        \/ i = Len(es) /\ KeyEvent(es[i]) = "quit"

\* C9: handling an unrecognized key changes nothing but the position of the
\* loop, which is back at the key read; and no step writes, warns or changes
\* the row while the keys returned are unrecognized keys alone, with or
\* without a final quit.
C9_NoiseIsDropped ==
    [][/\ (pc = "dispatch" /\ KeyEvent(key) = "other" /\ Dispatch)
            => /\ pc' = "get_key"
               /\ UNCHANGED <<row, writes, warnings, table, tx, exitCode, server>>
       /\ (writes' # writes \/ warnings' # warnings \/ row' # row)
            => ~OnlyNoise(events')]_vars

\* C9 witness: a plain unrecognized key, the escape key and quit have been
\* handled: the loop has terminated without a write.
C9_Witness ==
    /\ pc = "Terminated"
    /\ Len(events) = 3
    /\ events[1] = <<"x">> /\ events[2] = <<"ESC">> /\ events[3] = <<"q">>
    /\ writes = <<>>
    /\ table = "row" /\ row = InitRow

\* C10 (as claimed): a call of get_key reads from one keypress only.
C10_OneKeypressPerCall ==
    Cardinality(consumed) <= 1

----------------------------------------------------------------------------
\* Claims about the adapter and the tables, under SpecAdapter.  There every
\* call of get_key reads one whole keypress, so events[i] is what get_key
\* returned for typed[i].

\* the direction an arrow key stands for
ArrowEvent(k) ==
    CASE k = "Up" -> up
      [] k = "Down" -> down
      [] k \in {"Left", "KpLeft"} -> left
      [] k = "Right" -> right

Arrows == {"Up", "Down", "Left", "Right", "KpLeft"}

\* keys that send an escape or extended-key sequence that no table maps
Unmapped == {"Home", "F1"}

\* C11 (as claimed): in both variants an arrow is returned as its direction
\* and an unmapped sequence as its raw bytes.
C11_SequencesMappedOrRaw ==
    \A i \in DOMAIN events :
        /\ typed[i] \in Arrows => events[i] = ArrowEvent(typed[i])
        /\ typed[i] \in Unmapped => events[i] = KeyBytes(platform, typed[i])

\* C11 (amended): in both variants an arrow is returned as its direction; an
\* unmapped escape sequence of three bytes is returned as its raw bytes under
\* termios, and an unmapped extended key is returned as the empty string
\* under win32.
C11_SequencesMappedRawOrEmpty ==
    \A i \in DOMAIN events :
        /\ typed[i] \in Arrows => events[i] = ArrowEvent(typed[i])
        /\ typed[i] \in Unmapped =>
             events[i] = IF platform = "posix"
                           THEN KeyBytes(platform, typed[i])
                           ELSE <<>>

\* C11 witness: under win32 the keypad's left arrow came back as "left" and
\* F1 as the empty string.
C11_Witness ==
    /\ platform = "win32"
    /\ typed = <<"KpLeft", "F1">>
    /\ events = <<left, <<>>>>

\* the command a key of the keyboard stands for, "" if none
KeyCommand(k) ==
    CASE k \in {"w", "W", "Up"} -> up
      [] k \in {"a", "A", "Left", "KpLeft"} -> left
      [] k \in {"s", "S", "Down"} -> down
      [] k \in {"d", "D", "Right"} -> right
      [] k = "Space" -> space
      [] OTHER -> <<>>

\* C12: normalizing what get_key returned for a letter, in either case, for
\* the arrow of the same direction or for the space key gives that command,
\* and normalizing a normalized key gives it back.
C12_NormalizeIdempotent ==
    \A i \in DOMAIN events :
        /\ Normalize(Normalize(events[i])) = Normalize(events[i])
        /\ KeyCommand(typed[i]) # <<>> => Normalize(events[i]) = KeyCommand(typed[i])

\* C12 witness: W and the up arrow have been read and normalize to the same
\* command.
C12_Witness ==
    /\ typed = <<"W", "Up">>
    /\ Len(events) = 2
    /\ Normalize(events[1]) = up
    /\ Normalize(events[2]) = up

----------------------------------------------------------------------------
\* Claims about exits and failures, under Spec.

\* C13: the exit status is 0 exactly when the loop ended on quit; it is 1
\* after exit(1) on a failed connection and after an uncaught exception; and
\* when the connection failed at start-up no key was read and nothing written.
C13_ExitCodes ==
    /\ exitCode = 0 <=> pc = "Terminated"
    /\ pc = "Terminated" =>
         (events # <<>> /\ KeyEvent(events[Len(events)]) = "quit")
    /\ pc \in {"Exited", "Crashed"} <=> exitCode = 1
    /\ pc = "Exited" => server = "down"
    /\ (pc = "Exited" /\ events = <<>>) =>
         /\ consumed = {} /\ key = <<>> /\ termMode = "cooked"
         /\ writes = <<>> /\ warnings = 0 /\ row = InitRow

\* C13 witness: the connection failed at start-up with a key already typed.
C13_Witness ==
    /\ pc = "Exited"
    /\ exitCode = 1
    /\ events = <<>>
    /\ Len(stdin) = 1 /\ nTyped = 1

\* a q keypress has been read from stdin
QuitKeyRead ==
    \E i \in DOMAIN typed :
        typed[i] = "q" /\ \A j \in DOMAIN stdin : stdin[j].k # i

\* C14 (as claimed): once a q keypress has been read and handled, the loop
\* is not waiting for another key.
C14_QuitKeyStops ==
    QuitKeyRead => pc \notin {"get_key", "read1", "read2"}

\* the number of command keys among the keys
NumCommands(es) == Len(SelectSeq(es, IsCommandEvent))

\* C15: when the table appears nothing is written for the commands dropped
\* before; a write happens only while a command key is handled and is the
\* write of that key; and a step that writes or warns leaves no more
\* attempts, writes and warnings together, than command keys returned.
C15_DroppedCommandNotRetried ==
    [][/\ (table = "absent" /\ table' # "absent")
            => (writes' = writes /\ warnings' = warnings /\ row' = InitRow)
       /\ writes' # writes
            => /\ Dispatch /\ IsCommandEvent(key)
               /\ writes' = Append(writes, EventCode(KeyEvent(key)))
               /\ table = "row" => row'.cmd = EventCode(KeyEvent(key))
       /\ (writes' # writes \/ warnings' # warnings)
            => Len(writes') + warnings' <= NumCommands(events')]_vars

\* C15 witness: up was dropped on the missing table, the table appeared, and
\* the row holds the next command, S, alone.
C15_Witness ==
    /\ pc = "get_key"
    /\ events = <<up, <<"S">>>>
    /\ warnings = 1
    /\ writes = <<"d">>
    /\ table = "row" /\ row.cmd = "d"

\* C16: a write on the row sets ts to the clock of the step that writes, which
\* is not before the time the key was read nor before the ts it replaces.
C16_TsIsWriteTime ==
    [][(writes' # writes /\ table = "row")
         => /\ row'.ts = clock
            /\ row'.ts >= readAt
            /\ row'.ts >= row.ts]_vars

\* C16 witness: the same command was written twice, and the second write
\* carries a ts later than the time its key was read.
C16_Witness ==
    /\ pc = "get_key"
    /\ table = "row"
    /\ Len(writes) = 2 /\ writes[1] = writes[2]
    /\ row.ts > readAt

\* C17: a command key handled while the write raises anything but a missing
\* table (the connection is lost, or the role has no privilege on the
\* table) ends the process with status 1 and without a write, and the ended
\* process takes no step.
C17_OtherWriteErrorsAreFatal ==
    [][/\ (Dispatch /\ IsCommandEvent(key)
             /\ (server = "down" \/ (server = "denied" /\ table # "absent")))
            => /\ pc' \in {"Exited", "Crashed"}
               /\ exitCode' = 1
               /\ UNCHANGED <<writes, row, warnings, stdin, events>>
       /\ Ended => ~ProcessStep]_vars

\* C17 witness: the process has ended on a write without privilege, after an
\* earlier write went through, with typed keys left unread.
C17_Witness ==
    /\ pc = "Crashed"
    /\ server = "denied"
    /\ table = "row"
    /\ Len(events) = 2 /\ IsCommandEvent(events[2])
    /\ Len(writes) = 1
    /\ stdin # <<>>

\* C18: a command key handled while the table has no row and the store is
\* up executes its statement, leaves the table empty, prints no warning and
\* leaves the loop at the next key read.
C18_EmptyTableWriteIsNoOp ==
    [][(Dispatch /\ IsCommandEvent(key) /\ table = "empty" /\ server = "ok")
         => /\ pc' = "get_key"
            /\ exitCode' = exitCode
            /\ writes' = Append(writes, EventCode(KeyEvent(key)))
            /\ UNCHANGED <<table, row, warnings>>]_vars

\* C18 witness: two commands were handled on the empty table and the loop
\* is reading the next key.
C18_Witness ==
    /\ pc = "read1"
    /\ table = "empty"
    /\ Len(writes) = 2
    /\ warnings = 0
    /\ row = InitRow

----------------------------------------------------------------------------
\* The codes of the mailbox, under SpecAdapter.

Codes == {"u", "d", "l", "r", "s", "p"}

\* C19: every cmd written is one of the six codes; when the loop has handled
\* its keys there is one write per command key, two writes have the same
\* code only for the same command, and the keys s, d and space have written
\* "d", "r" and "s".
C19_CodesInjective ==
    /\ \A i \in DOMAIN writes : writes[i] \in Codes
    /\ row.cmd \in Codes \cup {""}
    /\ pc # "dispatch" =>
         LET cmds == SelectSeq(events, IsCommandEvent) IN
         /\ Len(writes) = Len(cmds)
         /\ \A i, j \in DOMAIN writes :
              writes[i] = writes[j] => KeyEvent(cmds[i]) = KeyEvent(cmds[j])
         /\ \A i \in DOMAIN writes :
              /\ cmds[i] \in {<<"s">>, <<"S">>} => writes[i] = "d"
              /\ cmds[i] \in {<<"d">>, <<"D">>} => writes[i] = "r"
              /\ cmds[i] = <<" ">> => writes[i] = "s"

\* C19 witness: the s key and the space key have published "d" then "s".
C19_Witness ==
    /\ pc = "get_key"
    /\ typed = <<"s", "Space">>
    /\ writes = <<"d", "s">>
    /\ row.cmd = "s"

====
